---- MODULE Spec2Model ----
(***************************************************************************)
(* A model of cube.c: the rotating ASCII cube renderer.                    *)
(*                                                                         *)
(* Number representation.  The program computes in C float; the model      *)
(* computes in integers:                                                   *)
(*   - the tunables cubeWidth, horizontalOffset, verticalOffset,           *)
(*     distanceFromCam, K1, incrementSpeed and the loop variables cubeX,   *)
(*     cubeY are held in TENTHS (cubeWidth = 100 is 10.0f).  Every value   *)
(*     the program gives them is a multiple of 0.1 far below 2^24, except  *)
(*     that 0.6f is not exactly 0.6: the drift of the accumulated loop     *)
(*     variable is not modelled;                                           *)
(*   - the angles A, B, C are held in HUNDREDTHS of a radian (A = 5 is     *)
(*     0.05f);                                                             *)
(*   - sines, cosines and rotated coordinates are fixed-point numbers      *)
(*     scaled by Scale, so a rotated coordinate carries an error of about  *)
(*     1e-2 where the C float carries about 1e-5.  At A = B = C = 0 both   *)
(*     are exact;                                                          *)
(*   - the inverse depth ooz = 1/z is kept as the exact fraction <<n, d>>  *)
(*     = n*Scale/d, with n = 0 for the cleared value 0 and n = 1 for a     *)
(*     sample (d is its z scaled by Scale).                                *)
(***************************************************************************)
EXTENDS Integers, Sequences, FiniteSets, TLC

VARIABLES
    renderer,   \* the CubeRenderer struct (its fields, the three buffers included)
    running,    \* gameLoop's local flag `running`
    pc,         \* position of main/gameLoop
    key,        \* the character the handleInput that just returned read ("none": none)
    output,     \* the bytes render has just passed to fwrite (<<>> once flushed)
    heap,       \* the malloc'ed blocks: which are live, and what went wrong with them
    hist        \* history: counts of the loop's steps, the state before the last
                \* handleInput, the samples submitted, the bounds of the run

vars == <<renderer, running, pc, key, output, heap, hist>>

----------------------------------------------------------------------------
(* Program constants (floats in tenths).                                   *)

DEFAULT_WIDTH == 160
DEFAULT_HEIGHT == 44
DEFAULT_CUBE_WIDTH == 200
DEFAULT_DISTANCE == 1000
DEFAULT_K1 == 400
DEFAULT_INCREMENT == 6
MIN_CUBE_WIDTH == 50
MAX_CUBE_WIDTH == 500

(* Fixed-point scale of sines, cosines and rotated coordinates.            *)
Scale == 10000

(* (int)(n/d) for d > 0: C truncates toward zero.                          *)
Trunc(n, d) == IF n >= 0 THEN n \div d ELSE -((-n) \div d)

(* sin and cos of a/100 radians, scaled by Scale, by their power series.   *)
RECURSIVE Series(_, _, _)
Series(t, x, k) ==
    IF t = 0 THEN 0
    ELSE t + Series(-Trunc(Trunc(Trunc(t * x, Scale) * x, Scale), k * (k + 1)), x, k + 2)

sin(a) == Series(a * (Scale \div 100), a * (Scale \div 100), 2)
cos(a) == Series(Scale, a * (Scale \div 100), 1)

(* a*b and a*b*c of fixed-point numbers.                                    *)
Mul(a, b) == Trunc(a * b, Scale)
Mul3(a, b, c) == Mul(Mul(a, b), c)

Min(a, b) == IF a < b THEN a ELSE b
Max(a, b) == IF a > b THEN a ELSE b

----------------------------------------------------------------------------
(* Strings of the program, as sequences of bytes (ESC is the byte 0x1b).   *)

NoColor == <<>>
RED == <<"ESC", "[", "9", "1", "m">>
GREEN == <<"ESC", "[", "9", "2", "m">>
YELLOW == <<"ESC", "[", "9", "3", "m">>
BLUE == <<"ESC", "[", "9", "4", "m">>
MAGENTA == <<"ESC", "[", "9", "5", "m">>
CYAN == <<"ESC", "[", "9", "6", "m">>
WHITE == <<"ESC", "[", "9", "7", "m">>
RESET == <<"ESC", "[", "0", "m">>
HOME == <<"ESC", "[", "H">>
NEWLINE == <<"\n">>

(* A null pointer, and a byte malloc left uninitialized.                   *)
NULL == <<"NULL">>
Uninit == "?"

----------------------------------------------------------------------------
(* The coefficients calculatePoint multiplies i, j and k by: the products  *)
(* of sines and cosines of its three formulas, in their order.  The code   *)
(* evaluates them anew for every sample; A, B and C do not change during a *)
(* drawCube pass.                                                          *)
Rotation(A, B, C) ==
    LET sA == sin(A)  cA == cos(A)
        sB == sin(B)  cB == cos(B)
        sC == sin(C)  cC == cos(C)
    IN  [xj1 |-> Mul3(sA, sB, cC), xk1 |-> Mul3(cA, sB, cC),
         xj2 |-> Mul(cA, sC), xk2 |-> Mul(sA, sC), xi |-> Mul(cB, cC),
         yj1 |-> Mul(cA, cC), yk1 |-> Mul(sA, cC),
         yj2 |-> Mul3(sA, sB, sC), yk2 |-> Mul3(cA, sB, sC), yi |-> Mul(cB, sC),
         zk |-> Mul(cA, cB), zj |-> Mul(sA, cB), zi |-> sB]

(* calculatePoint: the rotated point of the integer coordinate (i, j, k),  *)
(* each coordinate scaled by Scale; m is Rotation(A, B, C).                *)
calculatePoint(m, i, j, k) ==
    [x |-> j * m.xj1 - k * m.xk1 + j * m.xj2 + k * m.xk2 + i * m.xi,
     y |-> j * m.yj1 + k * m.yk1 - j * m.yj2 + k * m.yk2 - i * m.yi,
     z |-> k * m.zk - j * m.zj + i * m.zi]

(* The camera-plane test of projectAndDraw: p.z <= 0.001f, pz scaled.      *)
Culled(pz) == pz * 1000 <= Scale

(* xp and yp of projectAndDraw for a point that is not culled:             *)
(*   (int)(width/2.0f + horizontalOffset + K1*ooz*p.x*2.0f)                *)
(*   (int)(height/2.0f + verticalOffset + K1*ooz*p.y)                      *)
(* as fractions over 10*pz (the offsets and K1 are in tenths).             *)
ScreenX(r, pz, px) == Trunc((5 * r.width + r.horizontalOffset) * pz + 2 * r.K1 * px, 10 * pz)
ScreenY(r, pz, py) == Trunc((5 * r.height + r.verticalOffset) * pz + r.K1 * py, 10 * pz)

(* The bounds test of projectAndDraw.                                      *)
InBuffer(r, xp, yp, idx) == idx >= 0 /\ idx < r.width * r.height

(* What projectAndDraw computes of a sample before it touches the buffers. *)
(* cubeX, cubeY, cubeZ are floats in tenths; (int) truncates them.         *)
Project(r, m, cubeX, cubeY, cubeZ) ==
    LET p  == calculatePoint(m, Trunc(cubeX, 10), Trunc(cubeY, 10), Trunc(cubeZ, 10))
        pz == p.z + r.distanceFromCam * (Scale \div 10)
        xp == ScreenX(r, pz, p.x)
        yp == ScreenY(r, pz, p.y)
    IN  IF Culled(pz)
        THEN [culled |-> TRUE, ooz |-> <<0, 1>>, xp |-> 0, yp |-> 0, idx |-> -1]
        ELSE [culled |-> FALSE, ooz |-> <<1, pz>>, xp |-> xp, yp |-> yp,
              idx |-> xp + yp * r.width]

(* A depth test that also lets a sample as near as the stored one through: *)
(* the last writer would win a tie.                                        *)
DepthTestGe(ooz, stored) == ooz[1] * stored[2] >= stored[1] * ooz[2]

(* ooz > zBuffer[idx], on the fractions n*Scale/d.                         *)
DepthTest(ooz, stored) == ooz[1] * stored[2] > stored[1] * ooz[2]

(* The body of projectAndDraw after the projection s of the sample.        *)
Rasterize(r, s, ch, color) ==
    IF s.culled THEN r
    ELSE IF InBuffer(r, s.xp, s.yp, s.idx)
         THEN IF DepthTest(s.ooz, r.zBuffer[s.idx])
              THEN [r EXCEPT !.zBuffer[s.idx] = s.ooz,
                             !.buffer[s.idx] = ch,
                             !.colorBuffer[s.idx] = color]
              ELSE r
         ELSE r

(* projectAndDraw: the renderer after the sample is submitted.             *)
projectAndDraw(r, m, cubeX, cubeY, cubeZ, ch, color) ==
    Rasterize(r, Project(r, m, cubeX, cubeY, cubeZ), ch, color)

----------------------------------------------------------------------------
(* The six faces of drawCube, in its order: the colour of each and the     *)
(* (cubeX, cubeY, cubeZ) it passes to projectAndDraw for the loop          *)
(* variables cubeX and cubeY.                                              *)
FaceColor == <<RED, GREEN, YELLOW, BLUE, MAGENTA, CYAN>>

(* A face table whose first face lies on the far side (cubeZ = +cubeWidth) *)
(* instead of the near side.                                               *)
FaceCoordFrontBehind(f, cw, cubeX, cubeY) ==
    CASE f = 1 -> <<cubeX, cubeY, cw>>
      [] f = 2 -> <<cw, cubeY, cubeX>>
      [] f = 3 -> <<-cw, cubeY, -cubeX>>
      [] f = 4 -> <<-cubeX, cubeY, cw>>
      [] f = 5 -> <<cubeX, -cw, -cubeY>>
      [] f = 6 -> <<cubeX, cw, cubeY>>

FaceCoord(f, cw, cubeX, cubeY) ==
    CASE f = 1 -> <<cubeX, cubeY, -cw>>
      [] f = 2 -> <<cw, cubeY, cubeX>>
      [] f = 3 -> <<-cw, cubeY, -cubeX>>
      [] f = 4 -> <<-cubeX, cubeY, cw>>
      [] f = 5 -> <<cubeX, -cw, -cubeY>>
      [] f = 6 -> <<cubeX, cw, cubeY>>

(* The number of iterations of `for (c = -cw; c < cw; c += inc)`; its k-th *)
(* iteration (k = 0, 1, ...) runs with c = -cw + k*inc.                    *)
LoopCount(cw, inc) == IF cw <= 0 THEN 0 ELSE (2 * cw + inc - 1) \div inc
LoopValue(cw, inc, k) == -cw + k * inc

(* Then(a, F) is F(a), with a evaluated before F is entered: the statement *)
(* sequencing of the code (TLC would otherwise nest the evaluation of a    *)
(* whole loop).                                                            *)
Then(a, F(_)) == CHOOSE v \in {F(x) : x \in {a}} : TRUE

(* Iterations lo .. hi-1 of the inner loop (cubeY) of face f, in order.    *)
(* The range is split in two so that the evaluation stays shallow.         *)
RECURSIVE DrawRow(_, _, _, _, _, _)
DrawRow(r, m, f, cubeX, lo, hi) ==
    IF hi <= lo THEN r
    ELSE IF hi = lo + 1
         THEN LET c == FaceCoord(f, r.cubeWidth, cubeX,
                                 LoopValue(r.cubeWidth, r.incrementSpeed, lo))
              IN  projectAndDraw(r, m, c[1], c[2], c[3], "#", FaceColor[f])
         ELSE LET mid == (lo + hi) \div 2
              IN  Then(DrawRow(r, m, f, cubeX, lo, mid),
                       LAMBDA rr : DrawRow(rr, m, f, cubeX, mid, hi))

(* Iterations lo .. hi-1 of the outer loop (cubeX) of face f, in order.    *)
RECURSIVE DrawFace(_, _, _, _, _)
DrawFace(r, m, f, lo, hi) ==
    IF hi <= lo THEN r
    ELSE IF hi = lo + 1
         THEN DrawRow(r, m, f, LoopValue(r.cubeWidth, r.incrementSpeed, lo),
                      0, LoopCount(r.cubeWidth, r.incrementSpeed))
         ELSE LET mid == (lo + hi) \div 2
              IN  Then(DrawFace(r, m, f, lo, mid),
                       LAMBDA rr : DrawFace(rr, m, f, mid, hi))

(* drawCube: the six faces in order.                                       *)
drawCube(r) ==
    LET m == Rotation(r.A, r.B, r.C)
        n == LoopCount(r.cubeWidth, r.incrementSpeed)
        D(f, rr) == DrawFace(rr, m, f, 0, n)
    IN  Then(Then(Then(Then(Then(D(1, r), LAMBDA rr : D(2, rr)), LAMBDA rr : D(3, rr)),
                  LAMBDA rr : D(4, rr)), LAMBDA rr : D(5, rr)), LAMBDA rr : D(6, rr))

Pixels(r) == 0 .. (r.width * r.height - 1)

(* A clear that resets glyphs and colours but leaves the depths.           *)
clearBuffersKeepDepth(r) ==
    [r EXCEPT !.buffer = [i \in Pixels(r) |-> r.backgroundASCIICode],
              !.colorBuffer = [i \in Pixels(r) |-> NoColor]]

(* clearBuffers.                                                           *)
clearBuffers(r) ==
    [r EXCEPT !.buffer = [i \in Pixels(r) |-> r.backgroundASCIICode],
              !.zBuffer = [i \in Pixels(r) |-> <<0, 1>>],
              !.colorBuffer = [i \in Pixels(r) |-> NoColor]]

(* The size malloc gives renderer->buffer: the width*height glyph bytes    *)
(* and the output region of render share it.                               *)
BufferSize(w, h) == w * h * 10 + h + 200

(* createRenderer(width, height), its allocations having succeeded.  The   *)
(* calloc'ed buffers are zero; the malloc'ed glyph bytes are uninitialized *)
(* (gameLoop clears them before anything reads them).                      *)
createRenderer(w, h) ==
    [A |-> 0, B |-> 0, C |-> 0,
     cubeWidth |-> DEFAULT_CUBE_WIDTH,
     width |-> w, height |-> h,
     zBuffer |-> [i \in 0 .. (w * h - 1) |-> <<0, 1>>],
     buffer |-> [i \in 0 .. (w * h - 1) |-> Uninit],
     colorBuffer |-> [i \in 0 .. (w * h - 1) |-> NULL],
     backgroundASCIICode |-> " ",
     distanceFromCam |-> DEFAULT_DISTANCE,
     horizontalOffset |-> 0,
     verticalOffset |-> 0,
     K1 |-> DEFAULT_K1,
     incrementSpeed |-> DEFAULT_INCREMENT]

(* The blocks createRenderer allocates.                                    *)
Blocks == {"renderer", "zBuffer", "buffer", "colorBuffer"}

----------------------------------------------------------------------------
(* render.                                                                 *)

Digit(d) == <<"0", "1", "2", "3", "4", "5", "6", "7", "8", "9">>[d + 1]

(* The decimal digits of n >= 0.                                           *)
RECURSIVE Digits(_)
Digits(n) == IF n < 10 THEN <<Digit(n)>> ELSE Digits(n \div 10) \o <<Digit(n % 10)>>

(* "%.1f" of a float given in tenths.                                      *)
Fmt1(t) ==
    (IF t < 0 THEN <<"-">> ELSE <<>>)
    \o Digits((IF t < 0 THEN -t ELSE t) \div 10)
    \o <<".">> \o <<Digit((IF t < 0 THEN -t ELSE t) % 10)>>

(* What sprintf writes for "\x1b[97mH=%.1f:V=%.1f:W=%.1f\x1b[0m".          *)
StatusLine(r) ==
    WHITE \o <<"H", "=">> \o Fmt1(r.horizontalOffset)
          \o <<":", "V", "=">> \o Fmt1(r.verticalOffset)
          \o <<":", "W", "=">> \o Fmt1(r.cubeWidth) \o RESET

(* A serialization that puts the newline after the last pixel of a row     *)
(* instead of before the first pixel of the next.                          *)
PixelBytesNewlineAfter(r, k) ==
    (IF r.colorBuffer[k] # NoColor THEN r.colorBuffer[k] ELSE <<>>)
        \o <<r.buffer[k]>>
        \o (IF r.colorBuffer[k] # NoColor THEN RESET ELSE <<>>)
        \o (IF k % r.width = r.width - 1 THEN NEWLINE ELSE <<>>)

(* One iteration k of render's pixel loop: what it appends.                *)
PixelBytes(r, k) ==
    LET color == r.colorBuffer[k]
        hasColor == color # NoColor
    IN  (IF k % r.width = 0 /\ k > 0 THEN NEWLINE ELSE <<>>)
        \o (IF hasColor THEN color ELSE <<>>)
        \o <<r.buffer[k]>>
        \o (IF hasColor THEN RESET ELSE <<>>)

(* Iterations lo .. hi-1 of render's pixel loop, in order (split in two so *)
(* that the evaluation stays shallow).                                     *)
RECURSIVE PixelLoop(_, _, _)
PixelLoop(r, lo, hi) ==
    IF hi <= lo THEN <<>>
    ELSE IF hi = lo + 1 THEN PixelBytes(r, lo)
         ELSE PixelLoop(r, lo, (lo + hi) \div 2) \o PixelLoop(r, (lo + hi) \div 2, hi)

(* The bytes render stores from outputPtr = buffer + width*height on, up   *)
(* to the terminating NUL (which it stores too and does not fwrite).       *)
render(r) ==
    HOME \o PixelLoop(r, 0, r.width * r.height) \o RESET \o HOME \o StatusLine(r)

(* The offset in renderer->buffer one past the last byte render stores:    *)
(* the frame starts at width*height and the NUL follows it.                *)
RenderEnd(r) == r.width * r.height + Len(render(r)) + 1

----------------------------------------------------------------------------
(* handleInput.  c is the character read, or "none" when kbhit() is 0;     *)
(* "x" stands for every character the switch has no case for.              *)

Keys == {"q", "h", "j", "k", "l", "+", "=", "-", "_", "x"}
NoKey == "none"

(* An input handler that grows and shrinks cubeWidth without clamping.     *)
handleInputUnclamped(r, run, c) ==
    CASE c = "q" -> <<r, FALSE>>
      [] c = "h" -> <<[r EXCEPT !.horizontalOffset = @ - 50], run>>
      [] c = "j" -> <<[r EXCEPT !.verticalOffset = @ + 10], run>>
      [] c = "k" -> <<[r EXCEPT !.verticalOffset = @ - 10], run>>
      [] c = "l" -> <<[r EXCEPT !.horizontalOffset = @ + 50], run>>
      [] c \in {"+", "="} -> <<[r EXCEPT !.cubeWidth = @ + 10], run>>
      [] c \in {"-", "_"} -> <<[r EXCEPT !.cubeWidth = @ - 10], run>>
      [] OTHER -> <<r, run>>

(* An input handler whose 'j' and 'k' are exchanged.                       *)
handleInputSwapped(r, run, c) ==
    CASE c = "q" -> <<r, FALSE>>
      [] c = "h" -> <<[r EXCEPT !.horizontalOffset = @ - 50], run>>
      [] c = "j" -> <<[r EXCEPT !.verticalOffset = @ - 10], run>>
      [] c = "k" -> <<[r EXCEPT !.verticalOffset = @ + 10], run>>
      [] c = "l" -> <<[r EXCEPT !.horizontalOffset = @ + 50], run>>
      [] c \in {"+", "="} -> <<[r EXCEPT !.cubeWidth = Min(@ + 10, MAX_CUBE_WIDTH)], run>>
      [] c \in {"-", "_"} -> <<[r EXCEPT !.cubeWidth = Max(@ - 10, MIN_CUBE_WIDTH)], run>>
      [] OTHER -> <<r, run>>

(* handleInput(renderer, &running) on input c: the renderer and the flag   *)
(* after it.                                                               *)
handleInput(r, run, c) ==
    CASE c = NoKey -> <<r, run>>
      [] c = "q" -> <<r, FALSE>>
      [] c = "h" -> <<[r EXCEPT !.horizontalOffset = @ - 50], run>>
      [] c = "j" -> <<[r EXCEPT !.verticalOffset = @ + 10], run>>
      [] c = "k" -> <<[r EXCEPT !.verticalOffset = @ - 10], run>>
      [] c = "l" -> <<[r EXCEPT !.horizontalOffset = @ + 50], run>>
      [] c \in {"+", "="} -> <<[r EXCEPT !.cubeWidth = Min(@ + 10, MAX_CUBE_WIDTH)], run>>
      [] c \in {"-", "_"} -> <<[r EXCEPT !.cubeWidth = Max(@ - 10, MIN_CUBE_WIDTH)], run>>
      [] OTHER -> <<r, run>>

(* The advance of the angles at the end of an iteration of gameLoop.       *)
AdvanceAngles(r) == [r EXCEPT !.A = @ + 5, !.B = @ + 5, !.C = @ + 1]

----------------------------------------------------------------------------
(* destroyRenderer(p) for the pointer p main holds.  The first call frees  *)
(* the three buffers and the struct.  p is passed by value, so it still    *)
(* points to the struct afterwards: a later call passes `if (renderer)`,   *)
(* reads the three pointers from the freed struct (each read yields NULL,  *)
(* as stored before the free, or something else, as the allocator left     *)
(* it: `stale` are the fields read as non-null) and frees again.           *)
destroyRenderer(h, stale) ==
    IF "renderer" \in h.live
    THEN [h EXCEPT !.live = {}]
    ELSE [h EXCEPT !.fault = @ \cup {"use-after-free", "double-free"},
                   !.again = @ \cup stale \cup {"renderer"}]

----------------------------------------------------------------------------
(* Bounds of the model.                                                    *)

ModelWidth == 6        \* width of the renderer of the loop specification
ModelHeight == 3       \* its height
SampleStep == 250      \* its incrementSpeed, in tenths
MaxFrames == 41        \* iterations of gameLoop it runs
MaxPan == 1            \* pan commands away from the start it follows
MaxDestroys == 2       \* calls of destroyRenderer it follows
ScenarioFrames == 2    \* iterations of gameLoop the scenario specification runs
DefaultFrames == 1     \* iterations of gameLoop the default-renderer specification runs
MaxSubmits == 3        \* samples submitted within one frame of the rasterizer specification

(* The state of a run that starts at position at with renderer r0.         *)
Start(r0, frames, at) ==
    /\ renderer = r0
    /\ running = TRUE
    /\ pc = at
    /\ key = NoKey
    /\ output = <<>>
    /\ heap = [live |-> Blocks, fault |-> {}, again |-> {}]
    /\ hist = [iterations |-> 0, inputs |-> 0, draws |-> 0, writes |-> 0,
               advances |-> 0, destroys |-> 0, quit |-> FALSE,
               before |-> r0, submitted |-> <<>>,
               frames |-> frames, h0 |-> r0.horizontalOffset, v0 |-> r0.verticalOffset]

(* main: createRenderer, then its three assignments, then gameLoop.  The   *)
(* loop specification runs main on a renderer of ModelWidth x ModelHeight  *)
(* that samples the faces every SampleStep, where main's is 160 x 44 and   *)
(* samples every DEFAULT_INCREMENT: a frame of main's own renderer is up   *)
(* to 167*167*6 samples.                                                   *)
MainRenderer ==
    LET r == [createRenderer(ModelWidth, ModelHeight) EXCEPT !.incrementSpeed = SampleStep]
    IN  [r EXCEPT !.cubeWidth = 100, !.horizontalOffset = 100, !.verticalOffset = 0]

Init == Start(MainRenderer, MaxFrames, "clear")

(* gameLoop: `while (running)` entered, clearBuffers(renderer).            *)
Clear ==
    /\ pc = "clear"
    /\ hist.iterations < hist.frames
    /\ renderer' = clearBuffers(renderer)
    /\ pc' = "input"
    /\ hist' = [hist EXCEPT !.iterations = @ + 1]
    /\ UNCHANGED <<running, key, output, heap>>

(* The magnitude of an offset change.                                      *)
Abs(n) == IF n < 0 THEN -n ELSE n

(* The inputs the model follows: the offsets stay within MaxPan pan        *)
(* commands of the start.                                                  *)
Followed(r) ==
    Abs(r.horizontalOffset - hist.h0) \div 50 + Abs(r.verticalOffset - hist.v0) \div 10 <= MaxPan

(* gameLoop: handleInput(renderer, &running): one call reads at most one   *)
(* character.  key is the character it read and before the renderer it was *)
(* called with.                                                            *)
HandleInput ==
    /\ pc = "input"
    /\ \E c \in Keys \cup {NoKey} :
          LET res == handleInput(renderer, running, c)
          IN  /\ Followed(res[1])
              /\ key' = c
              /\ renderer' = res[1]
              /\ running' = res[2]
              /\ hist' = [hist EXCEPT !.before = renderer,
                                      !.inputs = @ + 1,
                                      !.quit = (c = "q")]
    /\ pc' = "check"
    /\ UNCHANGED <<output, heap>>

(* A loop that goes on to draw whether or not running was cleared.         *)
CheckNoBreak ==
    /\ pc = "check"
    /\ pc' = "draw"
    /\ key' = NoKey
    /\ hist' = [hist EXCEPT !.before = renderer]
    /\ UNCHANGED <<renderer, running, output, heap>>

(* gameLoop: `if (!running) break;` after handleInput has returned (its    *)
(* local c is gone).                                                       *)
Check ==
    /\ pc = "check"
    /\ pc' = IF running THEN "draw" ELSE "done"
    /\ key' = NoKey
    /\ hist' = [hist EXCEPT !.before = renderer]
    /\ UNCHANGED <<renderer, running, output, heap>>

(* gameLoop: drawCube(renderer).                                           *)
DrawCube ==
    /\ pc = "draw"
    /\ renderer' = drawCube(renderer)
    /\ pc' = "render"
    /\ hist' = [hist EXCEPT !.draws = @ + 1]
    /\ UNCHANGED <<running, key, output, heap>>

(* gameLoop: render(renderer).  A frame that does not fit in the block of  *)
(* renderer->buffer is written past its end: the program goes on with a    *)
(* corrupted heap or is stopped.                                           *)
Render ==
    /\ pc = "render"
    /\ output' = render(renderer)
    /\ LET overflow == RenderEnd(renderer) > BufferSize(renderer.width, renderer.height)
       IN  /\ heap' = IF overflow THEN [heap EXCEPT !.fault = @ \cup {"overflow"}] ELSE heap
           /\ pc' \in IF overflow THEN {"advance", "crashed"} ELSE {"advance"}
    /\ hist' = [hist EXCEPT !.writes = @ + 1]
    /\ UNCHANGED <<renderer, running, key>>

(* gameLoop: the three additions and usleep; the frame is on the terminal. *)
Advance ==
    /\ pc = "advance"
    /\ renderer' = AdvanceAngles(renderer)
    /\ pc' = "clear"
    /\ output' = <<>>
    /\ hist' = [hist EXCEPT !.advances = @ + 1]
    /\ UNCHANGED <<running, key, heap>>

(* main: destroyRenderer(renderer) after gameLoop, and any later call of   *)
(* it on the same pointer.                                                 *)
Destroy ==
    /\ pc \in {"done", "destroyed"}
    /\ hist.destroys < MaxDestroys
    /\ \E stale \in {{}, {"zBuffer", "buffer", "colorBuffer"}} :
          /\ "renderer" \in heap.live => stale = {}
          /\ heap' = destroyRenderer(heap, stale)
    /\ pc' = "destroyed"
    /\ hist' = [hist EXCEPT !.destroys = @ + 1]
    /\ UNCHANGED <<renderer, running, key, output>>

Next == Clear \/ HandleInput \/ Check \/ DrawCube \/ Render \/ Advance \/ Destroy

Spec == Init /\ [][Next]_vars

----------------------------------------------------------------------------
(* The end-to-end scenario: a 4 x 4 renderer with A = B = C = 0,           *)
(* cubeWidth = 1, incrementSpeed = 1, the default K1 = 40 and              *)
(* distanceFromCam = 100 and zero offsets, run by gameLoop.                *)
ScenarioRenderer ==
    [createRenderer(4, 4) EXCEPT !.cubeWidth = 10, !.incrementSpeed = 10]

InitScenario == Start(ScenarioRenderer, ScenarioFrames, "clear")

SpecScenario == InitScenario /\ [][Next]_vars

----------------------------------------------------------------------------
(* createRenderer(width, height) with every default, run by gameLoop.      *)
DefaultDims == {<<16, 11>>, <<8, 5>>, <<5, 2>>}

InitDefault == \E d \in DefaultDims : Start(createRenderer(d[1], d[2]), DefaultFrames, "clear")

SpecDefault == InitDefault /\ [][Next]_vars

----------------------------------------------------------------------------
(* The rasterizer alone: projectAndDraw called with any samples in any     *)
(* order on cleared buffers.  The renderer is 3 x 2 with K1 = 1,           *)
(* distanceFromCam = 3 and no rotation, so that the samples below are      *)
(* near and far ones of the same pixel, culled ones, and ones that project *)
(* to columns and rows outside the buffer.                                 *)
RasterRenderer ==
    clearBuffers([createRenderer(3, 2) EXCEPT !.K1 = 10, !.distanceFromCam = 30])

RasterX == {-30, 20}
RasterY == {-10, 0}
RasterZ == {-30, -10, 10}
RasterLook == {<<"#", RED>>, <<"@", GREEN>>}

InitRaster == Start(RasterRenderer, 0, "raster")

(* One call projectAndDraw(renderer, cubeX, cubeY, cubeZ, ch, color).      *)
Submit ==
    /\ pc = "raster"
    /\ Len(hist.submitted) < MaxSubmits
    /\ \E cubeX \in RasterX, cubeY \in RasterY, cubeZ \in RasterZ, look \in RasterLook :
          /\ renderer' = projectAndDraw(renderer, Rotation(renderer.A, renderer.B, renderer.C),
                                        cubeX, cubeY, cubeZ, look[1], look[2])
          /\ hist' = [hist EXCEPT !.submitted =
                         Append(@, [cubeX |-> cubeX, cubeY |-> cubeY, cubeZ |-> cubeZ,
                                    ch |-> look[1], color |-> look[2]])]
    /\ UNCHANGED <<running, pc, key, output, heap>>

(* The next frame: clearBuffers(renderer).                                 *)
NewFrame ==
    /\ pc = "raster"
    /\ hist.submitted # <<>>
    /\ renderer' = clearBuffers(renderer)
    /\ hist' = [hist EXCEPT !.submitted = <<>>]
    /\ UNCHANGED <<running, pc, key, output, heap>>

NextRaster == Submit \/ NewFrame

SpecRaster == InitRaster /\ [][NextRaster]_vars

----------------------------------------------------------------------------
(* Properties.                                                             *)

Buffers(r) == <<r.zBuffer, r.buffer, r.colorBuffer>>

(* The samples submitted in this frame, as projectAndDraw projects them.   *)
Submitted ==
    [n \in 1 .. Len(hist.submitted) |->
        Project(renderer, Rotation(renderer.A, renderer.B, renderer.C),
                hist.submitted[n].cubeX, hist.submitted[n].cubeY, hist.submitted[n].cubeZ)]

(* The submissions that reached pixel index idx.                           *)
Hits(P, idx) == {n \in DOMAIN P : ~P[n].culled /\ P[n].idx = idx}

(* Sample a is strictly closer to the camera than b (greater ooz = 1/z).   *)
Closer(a, b) == a.ooz[2] < b.ooz[2]

(* C1: within one frame, whatever was submitted in whatever order, every   *)
(* pixel index holds the depth, glyph and colour of the submitted sample   *)
(* with the greatest ooz at that index, the first submitted among equals,  *)
(* and a pixel no sample reached still holds the cleared values.           *)
C1_GreatestOozFirstWins ==
    pc = "raster" =>
        LET P == Submitted
        IN  \A idx \in Pixels(renderer) :
                LET H == Hits(P, idx)
                IN  IF H = {}
                    THEN /\ renderer.zBuffer[idx] = <<0, 1>>
                         /\ renderer.buffer[idx] = renderer.backgroundASCIICode
                         /\ renderer.colorBuffer[idx] = NoColor
                    ELSE \E n \in H :
                            /\ \A k \in H :
                                  /\ ~Closer(P[k], P[n])
                                  /\ P[k].ooz = P[n].ooz => n <= k
                            /\ renderer.zBuffer[idx] = P[n].ooz
                            /\ renderer.buffer[idx] = hist.submitted[n].ch
                            /\ renderer.colorBuffer[idx] = hist.submitted[n].color

(* A pixel reached by a far sample, then a nearer one, then one as near as *)
(* the second that looks different.                                        *)
C1_Witness ==
    /\ pc = "raster"
    /\ Len(hist.submitted) >= 3
    /\ LET P == Submitted
       IN  \E idx \in Pixels(renderer) : \E a, b, c \in Hits(P, idx) :
              /\ a < b /\ b < c
              /\ Closer(P[b], P[a])
              /\ P[c].ooz = P[b].ooz
              /\ hist.submitted[c].color # hist.submitted[b].color
              /\ renderer.colorBuffer[idx] = hist.submitted[b].color

(* C2: a sample whose truncated screenX is not in [0, width) or whose      *)
(* truncated screenY is not in [0, height) is discarded, so that every     *)
(* pixel written at column x, row y holds a sample that projected to       *)
(* exactly column x and row y.                                             *)
C2_OutOfBoundsDiscarded ==
    pc = "raster" =>
        \A idx \in Pixels(renderer) :
            renderer.colorBuffer[idx] # NoColor =>
                \E n \in 1 .. Len(hist.submitted) :
                    /\ ~Submitted[n].culled
                    /\ Submitted[n].xp = idx % renderer.width
                    /\ Submitted[n].yp = idx \div renderer.width
                    /\ hist.submitted[n].color = renderer.colorBuffer[idx]
                    /\ hist.submitted[n].ch = renderer.buffer[idx]

(* C3: every byte render stores, the terminating NUL included, lies inside *)
(* the block allocated for renderer->buffer, whatever the dimensions the   *)
(* renderer was created with and whatever the buffers hold.                *)
C3_FrameFitsAllocation ==
    /\ "overflow" \notin heap.fault
    /\ pc \in {"advance", "crashed"} =>
          renderer.width * renderer.height + Len(output) + 1
              <= BufferSize(renderer.width, renderer.height)

(* C4: from main's start cubeWidth stays within [5.0, 50.0], and a grow    *)
(* command at 50.0, or a shrink command at 5.0, leaves it there.           *)
C4_CubeWidthClamped ==
    /\ renderer.cubeWidth >= MIN_CUBE_WIDTH
    /\ renderer.cubeWidth <= MAX_CUBE_WIDTH
    /\ pc = "check" /\ key \in {"+", "="} /\ hist.before.cubeWidth = MAX_CUBE_WIDTH
          => renderer.cubeWidth = MAX_CUBE_WIDTH
    /\ pc = "check" /\ key \in {"-", "_"} /\ hist.before.cubeWidth = MIN_CUBE_WIDTH
          => renderer.cubeWidth = MIN_CUBE_WIDTH

(* A grow command has just been applied at 50.0.                           *)
C4_Witness ==
    /\ pc = "check"
    /\ key \in {"+", "="}
    /\ hist.before.cubeWidth = MAX_CUBE_WIDTH
    /\ renderer.cubeWidth = MAX_CUBE_WIDTH

(* C5: destroyRenderer releases every buffer, and a second call on the     *)
(* destroyed renderer is a no-op: it reads no released memory and frees    *)
(* nothing again.                                                          *)
C5_SecondDestroyIsNoOp ==
    /\ hist.destroys >= 1 => heap.live = {}
    /\ heap.fault \cap {"use-after-free", "double-free"} = {}
    /\ heap.again = {}

(* The parameters of the end-to-end scenario.                              *)
ScenarioParameters(r) ==
    /\ r.width = 4 /\ r.height = 4
    /\ r.A = 0 /\ r.B = 0 /\ r.C = 0
    /\ r.cubeWidth = 10 /\ r.incrementSpeed = 10
    /\ r.K1 = 400 /\ r.distanceFromCam = 1000
    /\ r.horizontalOffset = 0 /\ r.verticalOffset = 0

(* C6: in the end-to-end scenario, after clearBuffers and one drawCube     *)
(* pass, the front-face sample cubeX = 0, cubeY = 0 projects to column 2,  *)
(* row 2, index 10, and that pixel holds '#' in the front face's red.      *)
C6_FrontSampleKeepsItsPixel ==
    pc = "render" /\ ScenarioParameters(renderer) =>
        LET s == Project(renderer, Rotation(0, 0, 0), 0, 0, -renderer.cubeWidth)
        IN  /\ ~s.culled
            /\ s.xp = 2 /\ s.yp = 2 /\ s.idx = 10
            /\ renderer.buffer[10] = "#"
            /\ renderer.colorBuffer[10] = RED

(* The pass is done, and the right face (drawn after the front face) has a *)
(* sample on the same pixel at the same depth.                             *)
C6_Witness ==
    /\ pc = "render"
    /\ ScenarioParameters(renderer)
    /\ hist.draws = 1
    /\ LET m == Rotation(0, 0, 0)
           front == Project(renderer, m, 0, 0, -renderer.cubeWidth)
           right == Project(renderer, m, renderer.cubeWidth, 0, -renderer.cubeWidth)
       IN  right.idx = front.idx /\ right.ooz = front.ooz

(* The fields of renderer b and renderer r other than those in fields are  *)
(* equal.                                                                  *)
SameExcept(b, r, fields) ==
    /\ DOMAIN b = DOMAIN r
    /\ \A f \in DOMAIN b \ fields : b[f] = r[f]

(* C7: handleInput applies each key to its own field only: 'h'/'l' add     *)
(* -5.0/+5.0 to horizontalOffset, 'j'/'k' add +1.0/-1.0 to verticalOffset, *)
(* '+', '=', '-', '_' change cubeWidth only, 'q' clears running only, and  *)
(* any other character or no key changes nothing.                          *)
C7_EachKeyItsOwnField ==
    pc = "check" =>
        LET b == hist.before
            r == renderer
        IN  CASE key = "h" -> /\ SameExcept(b, r, {"horizontalOffset"})
                              /\ r.horizontalOffset = b.horizontalOffset - 50
                              /\ running
              [] key = "l" -> /\ SameExcept(b, r, {"horizontalOffset"})
                              /\ r.horizontalOffset = b.horizontalOffset + 50
                              /\ running
              [] key = "j" -> /\ SameExcept(b, r, {"verticalOffset"})
                              /\ r.verticalOffset = b.verticalOffset + 10
                              /\ running
              [] key = "k" -> /\ SameExcept(b, r, {"verticalOffset"})
                              /\ r.verticalOffset = b.verticalOffset - 10
                              /\ running
              [] key \in {"+", "="} -> /\ SameExcept(b, r, {"cubeWidth"})
                                       /\ r.cubeWidth \in {b.cubeWidth + 10, MAX_CUBE_WIDTH}
                                       /\ running
              [] key \in {"-", "_"} -> /\ SameExcept(b, r, {"cubeWidth"})
                                       /\ r.cubeWidth \in {b.cubeWidth - 10, MIN_CUBE_WIDTH}
                                       /\ running
              [] key = "q" -> r = b /\ ~running
              [] OTHER -> r = b /\ running

(* 'j' has just been applied in a frame after the first.                   *)
C7_Witness ==
    /\ pc = "check"
    /\ key = "j"
    /\ hist.draws >= 1
    /\ renderer.verticalOffset = hist.before.verticalOffset + 10

(* The row-major reference serialization of the grid: the rows in order,   *)
(* a newline between two rows, each row its pixels in order.               *)
RefPixel(r, x, y) ==
    LET k == x + y * r.width
    IN  IF r.colorBuffer[k] = NoColor
        THEN <<r.buffer[k]>>
        ELSE r.colorBuffer[k] \o <<r.buffer[k]>> \o RESET

RECURSIVE RefRow(_, _, _)
RefRow(r, x, y) == IF x = r.width THEN <<>> ELSE RefPixel(r, x, y) \o RefRow(r, x + 1, y)

RECURSIVE RefRows(_, _)
RefRows(r, y) ==
    IF y = r.height - 1 THEN RefRow(r, 0, y)
    ELSE RefRow(r, 0, y) \o NEWLINE \o RefRows(r, y + 1)

(* The number of bytes of out equal to b.                                  *)
Count(out, b) == Cardinality({i \in 1 .. Len(out) : out[i] = b})

(* C8: the frame render writes is cursor-home, the row-major reference     *)
(* serialization of the grid (height-1 newlines, one before every row but  *)
(* the first), reset, cursor-home and the status line.                     *)
C8_FrameIsRowMajor ==
    pc \in {"advance", "crashed"} =>
        /\ output = HOME \o RefRows(renderer, 0) \o RESET \o HOME \o StatusLine(renderer)
        /\ Count(output, "\n") = renderer.height - 1

(* A frame with a coloured pixel at the start of a row after the first and *)
(* an uncoloured pixel.                                                    *)
C8_Witness ==
    /\ pc = "advance"
    /\ \E y \in 1 .. (renderer.height - 1) : renderer.colorBuffer[y * renderer.width] # NoColor
    /\ \E k \in Pixels(renderer) : renderer.colorBuffer[k] = NoColor

Cleared(r) ==
    \A i \in Pixels(r) :
        /\ r.buffer[i] = r.backgroundASCIICode
        /\ r.colorBuffer[i] = NoColor
        /\ r.zBuffer[i] = <<0, 1>>

(* C9: when drawCube begins every glyph is the background character, every *)
(* colour tag is empty and every depth is 0, whatever key was applied; so  *)
(* the buffers render composes are those one drawCube pass writes on       *)
(* cleared buffers with the parameters after the input.                    *)
C9_DrawStartsFromClearedBuffers ==
    /\ pc = "draw" => Cleared(renderer)
    /\ pc = "render" => Buffers(renderer) = Buffers(drawCube(clearBuffers(renderer)))

(* drawCube begins in a frame after the first, a command having changed    *)
(* cubeWidth, and the pass is going to draw a pixel.                       *)
C9_Witness ==
    /\ pc = "draw"
    /\ hist.draws >= 1
    /\ renderer.cubeWidth # 100
    /\ \E i \in Pixels(renderer) :
          drawCube(renderer).colorBuffer[i] # NoColor

(* C10: every iteration calls handleInput once; one that does not read 'q' *)
(* then draws once, writes once and advances A and B by 0.05 and C by 0.01 *)
(* once; the one that reads 'q' ends the loop without drawing, writing or  *)
(* advancing, nothing is written after it, and the loop ends in no other   *)
(* way.                                                                    *)
C10_LockStep ==
    LET n == hist.iterations
        done == IF pc \in {"clear"} THEN n ELSE n - 1
    IN  /\ hist.inputs = (IF pc = "input" THEN n - 1 ELSE n)
        /\ hist.draws = (IF pc \in {"render", "advance"} THEN n ELSE done)
        /\ hist.writes = (IF pc = "advance" THEN n ELSE done)
        /\ hist.advances = done
        /\ renderer.A = 5 * hist.advances
        /\ renderer.B = 5 * hist.advances
        /\ renderer.C = hist.advances
        /\ pc \in {"clear", "input", "check", "draw", "render", "advance", "done", "destroyed"}
        /\ pc \in {"done", "destroyed"} => hist.quit /\ ~running
        /\ pc \in {"clear", "input", "draw", "render", "advance"} => running /\ ~hist.quit
        /\ pc = "check" => (running <=> key # "q") /\ (hist.quit <=> key = "q")

(* The loop has ended on 'q' after three full iterations.                  *)
C10_Witness ==
    /\ pc = "done"
    /\ hist.iterations = 4
    /\ hist.draws = 3 /\ hist.writes = 3 /\ hist.advances = 3
    /\ hist.quit
====
